---------------------------- MODULE Spec2Model ----------------------------
(***************************************************************************)
(* Kenya GIS Explorer (src/gee/app.py): the per-layer cache, the three     *)
(* get_*_geojson resolvers (cache, then Earth Engine, then local file),    *)
(* upload_geojson's cache invalidation, and the find_features matcher.     *)
(*                                                                         *)
(* Requests are served on worker threads (Flask's threaded server), so a   *)
(* resolver is a sequence of steps that other handlers interleave with:    *)
(* one step per access to the shared _cache or to the file system.         *)
(***************************************************************************)
EXTENDS Integers, Sequences, FiniteSets, TLC

VARIABLES
    now,          \* datetime.utcnow(), in seconds
    EE_INIT_OK,   \* _EE_INIT_OK, fixed by init_earth_engine() at import
    cache,        \* _cache: layer -> {"ts", "geojson"}
    files,        \* the local fallback file of each layer
    pc,           \* per request: position in get_*_geojson
    key,          \* per request: the local `key`
    forced,       \* per request: force=True made it pass over a valid entry
    entry,        \* per request: the entry cache_valid accepted
    local,        \* per request: the local `local`
    result,       \* per request: the value returned
    caught,       \* per request: the exception its except clause is handling
    fetches,      \* per request: Earth Engine fetches made
    reads,        \* per request: local file reads made
    cv_entry,     \* cache_valid harness: the entry
    cv_now,       \* cache_valid harness: the query time
    cv_out,       \* cache_valid harness: the value returned
    ff_geojson,   \* find_features harness: the collection
    ff_prop,      \* find_features harness: prop_name
    ff_value,     \* find_features harness: prop_value
    ff_out,       \* find_features harness: the value returned
    rt_route,     \* the route serving request 1, "" before it arrives
    rt_data,      \* request.get_json() of that request, None for a GET
    rt_response   \* the response of that route, None before it answers

rvars == <<now, EE_INIT_OK, cache, files, pc, key, forced, entry, local,
           result, caught, fetches, reads>>
cvars == <<cv_entry, cv_now, cv_out>>
fvars == <<ff_geojson, ff_prop, ff_value, ff_out>>
tvars == <<rt_route, rt_data, rt_response>>
vars == <<rvars, cvars, fvars, tvars>>

----------------------------------------------------------------------------
(* Bounds of the model. *)

MaxRequests == 2
MaxFeatures == 2

\* Each request is served on a thread of its own and calls one resolver;
\* requests are numbered in their order of arrival.
Requests == 1..MaxRequests

----------------------------------------------------------------------------
(* Constants of the program. *)

CACHE_TTL == 300

Layers == {"counties", "constituency", "kenya_inset"}

\* The instants the clock is read at: an entry stored at 0 is seen at the
\* ages 0, CACHE_TTL - 1 and CACHE_TTL.
Times == {0, CACHE_TTL - 1, CACHE_TTL}

----------------------------------------------------------------------------
(* Python values. *)

None == [kind |-> "NoneType"]

datetime(sec) == [kind |-> "datetime", sec |-> sec]

\* A dict as far as the program looks at it: its number of keys, the value
\* of .get("type") ("" when the key is absent), and which document it is:
\* where it came from ("remote", "local"), the layer whose asset or file it
\* is, and the version of the file or the request whose fetch got it.
Dict(len, type, src, layer, id) ==
    [kind |-> "dict", len |-> len, type |-> type, src |-> src, layer |-> layer, id |-> id]

List(len, src, layer) == [kind |-> "list", len |-> len, src |-> src, layer |-> layer]

FC(src, layer, id) == Dict(2, "FeatureCollection", src, layer, id)

bool(b) == [kind |-> "bool", val |-> b]

\* bool(v): None, {} and [] are false.
Truthy(v) == v.kind # "NoneType" /\ v.len > 0

\* seconds of (a - b).total_seconds()
total_seconds(a, b) == a.sec - b.sec

----------------------------------------------------------------------------
(* The cache. *)

EmptyEntry == [ts |-> None, geojson |-> None]

\* cache_valid with `<=` for `<`.
cache_valid_Inclusive(e, t) ==
    IF e = None \/ e.ts = None \/ ~Truthy(e.geojson)
    THEN FALSE
    ELSE total_seconds(datetime(t), e.ts) <= CACHE_TTL

cache_valid(e, t) ==
    IF e = None \/ e.ts = None \/ ~Truthy(e.geojson)
    THEN FALSE
    ELSE total_seconds(datetime(t), e.ts) < CACHE_TTL

\* set_cache storing the collection under the entry's old timestamp.
set_cache_NoStamp(c, k, geojson, t) ==
    [c EXCEPT ![k] = [ts |-> c[k].ts, geojson |-> geojson]]

\* set_cache writing every layer's entry.
set_cache_AllLayers(c, k, geojson, t) ==
    [x \in Layers |-> [ts |-> datetime(t), geojson |-> geojson]]

set_cache(c, k, geojson, t) ==
    [c EXCEPT ![k] = [ts |-> datetime(t), geojson |-> geojson]]

----------------------------------------------------------------------------
(* The local files. *)

Missing == [kind |-> "missing"]
Malformed == [kind |-> "malformed"]
JsonFile(v) == [kind |-> "json", value |-> v]

\* A local file: absent, text that is not JSON, or a JSON value.
read_local_json(f) ==
    IF f.kind = "missing" THEN None
    ELSE IF f.kind = "malformed" THEN None
    ELSE f.value

----------------------------------------------------------------------------
(* Earth Engine. *)

\* What fc.getInfo() can do: raise (network, auth, quota), or return a
\* FeatureCollection, an object with another or no type tag, a list or None.
Raise(exc) == [kind |-> "raise", exc |-> exc]
Return(v) == [kind |-> "return", value |-> v]

\* A fetch that is given the response of request 1's fetch.
EEResponses_Shared(k, t) == {Raise("EEException"), Return(FC("remote", k, 1))}

EEResponses(k, t) ==
    {Raise("EEException"),
     Return(FC("remote", k, t)),
     Return(Dict(2, "Feature", "remote", k, t)),
     Return(Dict(1, "", "remote", k, t)),
     Return(List(1, "remote", k)),
     Return(None)}

ee_fc_to_geojson(resp) == resp

\* fetch_ee_asset_geojson returning whatever getInfo() returned.
fetch_ee_asset_geojson_NoTypeCheck(init_ok, resp) ==
    IF ~init_ok THEN Raise("RuntimeError") ELSE ee_fc_to_geojson(resp)

fetch_ee_asset_geojson(init_ok, resp) ==
    IF ~init_ok THEN Raise("RuntimeError")
    ELSE LET got == ee_fc_to_geojson(resp) IN
         IF got.kind = "raise" THEN got
         ELSE IF got.value.kind = "dict" /\ got.value.type = "FeatureCollection"
              THEN Return(got.value)
              ELSE Raise("RuntimeError")

\* `except RuntimeError` in place of `except Exception`.
ExceptException_RuntimeOnly(exc) == exc = "RuntimeError"

\* `except Exception` in the resolvers: which raised exceptions it handles.
ExceptException(exc) == exc \in {"RuntimeError", "EEException"}

----------------------------------------------------------------------------
(* The resolvers: get_counties_geojson, get_constituency_geojson and        *)
(* get_kenya_inset_geojson are the same code over their own key, asset and  *)
(* local file.                                                              *)

ReturnPcs == {"ret_hit", "ret_remote", "ret_local", "ret_none"}

\* The test without `not force`.
CacheHit_IgnoresForce(f, e, t) == cache_valid(e, t)

\* The test with `force` for `not force`.
CacheHit_Inverted(f, e, t) == f /\ cache_valid(e, t)

\* The test of `if not force and cache_valid(_cache[key])`.
CacheHit(f, e, t) == ~f /\ cache_valid(e, t)

\* Where a resolver goes from its cache test: `return _cache[key]["geojson"]`,
\* or on a miss past `if _EE_INIT_OK` to the fetch or to the local file.
AfterTest(hit, init_ok) ==
    IF hit THEN "hit" ELSE IF init_ok THEN "remote" ELSE "local"

\* Entering the resolver of layer k.
Resolve(t, k, f) ==
    /\ pc[t] = "idle"
    /\ \A u \in Requests : u < t => pc[u] # "idle"
    /\ key' = [key EXCEPT ![t] = k]
    /\ forced' = [forced EXCEPT ![t] = f /\ cache_valid(cache[k], now)]
    /\ entry' = [entry EXCEPT ![t] = IF CacheHit(f, cache[k], now) THEN cache[k] ELSE None]
    /\ pc' = [pc EXCEPT ![t] = AfterTest(CacheHit(f, cache[k], now), EE_INIT_OK)]
    /\ UNCHANGED <<now, EE_INIT_OK, cache, files, local, result, caught, fetches, reads>>

get_counties_geojson(t, f) == Resolve(t, "counties", f)

get_constituency_geojson(t, f) == Resolve(t, "constituency", f)

get_kenya_inset_geojson(t, f) == Resolve(t, "kenya_inset", f)

\* The value `return _cache[key]["geojson"]` yields: a second read of
\* _cache[key], after the one cache_valid was given (e).
CachedGeojson(c, k, e) == c[k].geojson

\* `return _cache[key]["geojson"]`
HitReturn(t) ==
    /\ pc[t] = "hit"
    /\ result' = [result EXCEPT ![t] = CachedGeojson(cache, key[t], entry[t])]
    /\ pc' = [pc EXCEPT ![t] = "ret_hit"]
    /\ entry' = [entry EXCEPT ![t] = None]
    /\ UNCHANGED <<now, EE_INIT_OK, cache, files, key, forced, local, caught,
                   fetches, reads>>

\* Where the resolver goes when the fetch raised exc.
AfterRaise(exc) == IF ExceptException(exc) THEN "local" ELSE "raised"

\* `gj = fetch_ee_asset_geojson(ASSET); set_cache(key, gj); return gj`, or
\* the except clause.
RemoteFetch(t, resp) ==
    /\ pc[t] = "remote"
    /\ fetches' = [fetches EXCEPT ![t] = @ + 1]
    /\ LET r == fetch_ee_asset_geojson(EE_INIT_OK, resp) IN
       IF r.kind = "return"
       THEN /\ cache' = set_cache(cache, key[t], r.value, now)
            /\ result' = [result EXCEPT ![t] = r.value]
            /\ pc' = [pc EXCEPT ![t] = "ret_remote"]
            /\ UNCHANGED caught
       ELSE /\ pc' = [pc EXCEPT ![t] = AfterRaise(r.exc)]
            /\ caught' = [caught EXCEPT ![t] = r.exc]
            /\ UNCHANGED <<cache, result>>
    /\ UNCHANGED <<now, EE_INIT_OK, files, key, forced, entry, local, reads>>

\* `local = read_local_json(LOCAL_FILE)`
LocalRead(t) ==
    /\ pc[t] = "local"
    /\ reads' = [reads EXCEPT ![t] = @ + 1]
    /\ local' = [local EXCEPT ![t] = read_local_json(files[key[t]])]
    /\ caught' = [caught EXCEPT ![t] = ""]
    /\ pc' = [pc EXCEPT ![t] = "fallback"]
    /\ UNCHANGED <<now, EE_INIT_OK, cache, files, key, forced, entry, result, fetches>>

\* The fallback without its `if local:`.
LocalUsable_Unchecked(v) == TRUE

\* The test of `if local:`.
\* `if local is not None:`
LocalUsable_NotNone(v) == v # None

LocalUsable(v) == Truthy(v)

\* `if local: set_cache(key, local); return local` and `return None`
LocalReturn(t) ==
    /\ pc[t] = "fallback"
    /\ IF LocalUsable(local[t])
       THEN /\ cache' = set_cache(cache, key[t], local[t], now)
            /\ result' = [result EXCEPT ![t] = local[t]]
            /\ pc' = [pc EXCEPT ![t] = "ret_local"]
       ELSE /\ result' = [result EXCEPT ![t] = None]
            /\ pc' = [pc EXCEPT ![t] = "ret_none"]
            /\ UNCHANGED cache
    /\ local' = [local EXCEPT ![t] = None]
    /\ UNCHANGED <<now, EE_INIT_OK, files, key, forced, entry, caught, fetches, reads>>

----------------------------------------------------------------------------
(* upload_geojson: file.save(save_path), then the three cache resets.       *)

\* The files the operator replaces.
UploadLayers == {"counties"}

\* What an upload can put in a layer's file: text that is not JSON, a new
\* FeatureCollection, or {}.
UploadContents(k) ==
    {Malformed, JsonFile(FC("local", k, 2)), JsonFile(Dict(0, "", "local", k, 2))}

\* `_cache[k] = {"ts": None, "geojson": None}`
Cleared(c, k) == [c EXCEPT ![k] = [ts |-> None, geojson |-> None]]

\* An upload that leaves the kenya_inset entry alone.
ClearAll_TwoLayers(c) == Cleared(Cleared(c, "counties"), "constituency")

\* The three resets of a successful upload.
ClearAll(c) == Cleared(Cleared(Cleared(c, "counties"), "constituency"), "kenya_inset")

\* An upload saved as the file of layer k. One of what the file already
\* holds changes the entries alone, as does one saved under any other name.
upload_geojson(k, data) ==
    /\ files' = [files EXCEPT ![k] = data]
    /\ cache' = ClearAll(cache)
    /\ UNCHANGED <<now, EE_INIT_OK, pc, key, forced, entry, local,
                   result, caught, fetches, reads>>

----------------------------------------------------------------------------
(* The clock. *)

Tick ==
    /\ \E t \in Times : t > now
    /\ now' = CHOOSE t \in Times : t > now /\ \A u \in Times : u > now => t <= u
    /\ UNCHANGED <<EE_INIT_OK, cache, files, pc, key, forced, entry, local, result,
                   caught, fetches, reads>>

----------------------------------------------------------------------------
(* Strings: str(), str.strip() and str.lower() over a small alphabet.       *)

String(chars) == [kind |-> "str", s |-> chars]
Number(n) == [kind |-> "int", n |-> n]

Digit == <<"0", "1", "2", "3", "4", "5", "6", "7", "8", "9">>

RECURSIVE Decimal(_)
Decimal(n) ==
    IF n < 10 THEN <<Digit[n + 1]>>
    ELSE Decimal(n \div 10) \o <<Digit[(n % 10) + 1]>>

\* str(v)
str(v) ==
    CASE v.kind = "str" -> v.s
      [] v.kind = "int" -> IF v.n < 0 THEN <<"-">> \o Decimal(0 - v.n) ELSE Decimal(v.n)
      [] v.kind = "bool" -> IF v.val THEN <<"T", "r", "u", "e">> ELSE <<"F", "a", "l", "s", "e">>
      [] v.kind = "NoneType" -> <<"N", "o", "n", "e">>

Whitespace == {" ", "\t", "\n"}

RECURSIVE lstrip(_)
lstrip(s) ==
    IF s # <<>> /\ Head(s) \in Whitespace THEN lstrip(Tail(s)) ELSE s

RECURSIVE rstrip(_)
rstrip(s) ==
    IF s # <<>> /\ s[Len(s)] \in Whitespace
    THEN rstrip(SubSeq(s, 1, Len(s) - 1))
    ELSE s

\* s.strip()
strip(s) == rstrip(lstrip(s))

LowerOf(c) ==
    CASE c = "A" -> "a"
      [] c = "B" -> "b"
      [] c = "N" -> "n"
      [] c = "T" -> "t"
      [] c = "F" -> "f"
      [] OTHER -> c

\* s.lower()
lower(s) == [i \in 1..Len(s) |-> LowerOf(s[i])]

----------------------------------------------------------------------------
(* find_features. A feature's properties are the (key, value) pairs of its  *)
(* JSON object in document order; a feature carries its place in the        *)
(* collection, which stands for the rest of it (its geometry).              *)

Feature(i, props) == [id |-> i, properties |-> props]

\* props.get(name)
Get(props, name) ==
    IF \E j \in 1..Len(props) : props[j][1] = name
    THEN props[CHOOSE j \in 1..Len(props) : props[j][1] = name][2]
    ELSE None

\* What is compared without `.lower()`.
Normalized_NoLower(v) == strip(str(v))

\* `str(x).strip().lower()`
Normalized(v) == lower(strip(str(v)))

\* The fuzzy test with the `isinstance(v, str)` left out.
FuzzyEqual_AnyType(v, prop_value) == Normalized(v) = Normalized(prop_value)

\* `isinstance(v, str) and str(v).strip().lower() == str(prop_value).strip().lower()`
FuzzyEqual(v, prop_value) ==
    v.kind = "str" /\ Normalized(v) = Normalized(prop_value)

\* The scan without its `break`: feat is appended at every string value
\* equal to the target.
RECURSIVE FuzzyScan_NoBreak(_, _, _, _, _)
FuzzyScan_NoBreak(feat, props, j, prop_value, matches) ==
    IF j > Len(props) THEN matches
    ELSE FuzzyScan_NoBreak(feat, props, j + 1, prop_value,
                           IF FuzzyEqual(props[j][2], prop_value)
                           THEN Append(matches, feat) ELSE matches)

\* `for k, v in props.items()`: from pair j on, append feat at the first
\* string value equal to the target and break.
RECURSIVE FuzzyScan(_, _, _, _, _)
FuzzyScan(feat, props, j, prop_value, matches) ==
    IF j > Len(props) THEN matches
    ELSE IF FuzzyEqual(props[j][2], prop_value) THEN Append(matches, feat)
    ELSE FuzzyScan(feat, props, j + 1, prop_value, matches)

\* The direct test: `val is not None` and the two normal forms equal.
DirectEqual(val, prop_value) ==
    val # None /\ Normalized(val) = Normalized(prop_value)

\* `for feat in geojson["features"]`, from feature i on.
RECURSIVE FeatureLoop(_, _, _, _, _)
FeatureLoop(features, i, prop_name, prop_value, matches) ==
    IF i > Len(features) THEN matches
    ELSE LET feat == features[i]
             props == feat.properties
             val == Get(props, prop_name)
         IN  IF DirectEqual(val, prop_value)
             THEN FeatureLoop(features, i + 1, prop_name, prop_value, Append(matches, feat))
             ELSE FeatureLoop(features, i + 1, prop_name, prop_value,
                              FuzzyScan(feat, props, 1, prop_value, matches))

find_features(geojson, prop_name, prop_value) ==
    IF geojson = None \/ "features" \notin DOMAIN geojson
    THEN <<>>
    ELSE FeatureLoop(geojson.features, 1, prop_name, prop_value, <<>>)

----------------------------------------------------------------------------
(* The harness of cache_valid: an entry and a query time, then the call.   *)

IdleValid == cv_entry = None /\ cv_now = 0 /\ cv_out = None

\* The timestamps of the entries tried.
ValidStamps == {0, 1}

\* The collections of the entries tried: none, {}, [], a FeatureCollection.
ValidGeojsons ==
    {None, Dict(0, "", "local", "counties", 1), List(0, "local", "counties"),
     FC("local", "counties", 1)}

ValidEntries ==
    {None} \cup {[ts |-> ts, geojson |-> g] :
                    ts \in {None} \cup {datetime(n) : n \in ValidStamps},
                    g \in ValidGeojsons}

\* The ages an entry is queried at.
ValidAges == {0 - 1, 0, 1, CACHE_TTL - 1, CACHE_TTL, CACHE_TTL + 1, 2 * CACHE_TTL}

InitValid ==
    /\ cv_entry \in ValidEntries
    /\ cv_now \in {n + a : n \in ValidStamps, a \in ValidAges}
    /\ cv_out = None

CacheValidCall ==
    /\ cv_out = None
    /\ cv_out' = bool(cache_valid(cv_entry, cv_now))
    /\ UNCHANGED <<cv_entry, cv_now>>

----------------------------------------------------------------------------
(* The harness of find_features: a collection, a property name and a       *)
(* target, then the call.                                                   *)

IdleFind == ff_geojson = None /\ ff_prop = None /\ ff_value = None /\ ff_out = None

PropertyKeys == <<"COUNTY_NAM", "NAME">>

\* The values of the first key: a string that differs from the target "ab"
\* in case and blanks, another string, a number, null.
PropertyValues == {String(<<" ", "A", "B">>), String(<<"b">>), Number(42), None}

\* The values of the second key: the two strings.
OtherValues == {String(<<" ", "A", "B">>), String(<<"b">>)}

\* The properties of a feature: each key absent or with one of its values.
PropertyMaps ==
    {<<>>} \cup
    {<<<<PropertyKeys[1], v>>>> : v \in PropertyValues} \cup
    {<<<<PropertyKeys[2], w>>>> : w \in OtherValues} \cup
    {<<<<PropertyKeys[1], v>>, <<PropertyKeys[2], w>>>> : v \in PropertyValues, w \in OtherValues}

\* The collections: None, an object without "features", and the collections
\* of up to n features.
Collections(n) ==
    {None, [kind |-> "dict"]} \cup
    UNION {{[kind |-> "dict",
             features |-> [i \in 1..m |-> Feature(i, ps[i])]] : ps \in [1..m -> PropertyMaps]}
           : m \in 0..n}

\* prop_name: a key, or the "any" the routes pass when no name is given.
PropNames == {PropertyKeys[1], PropertyKeys[2], "any"}

\* prop_value: a JSON string or number.
PropValues == {String(<<"a", "b", " ">>), String(<<"4", "2">>), Number(42)}

InitFind ==
    /\ ff_geojson \in Collections(MaxFeatures)
    /\ ff_prop \in PropNames
    /\ ff_value \in PropValues
    /\ ff_out = None

FindFeaturesCall ==
    /\ ff_out = None
    /\ ff_out' = [kind |-> "list", items |-> find_features(ff_geojson, ff_prop, ff_value)]
    /\ UNCHANGED <<ff_geojson, ff_prop, ff_value>>

----------------------------------------------------------------------------
(* The routes: /get_counties, /get_constituencies, /get_kenya_inset,       *)
(* /properties and /download_feature, serving request 1.                    *)

IdleRoute == rt_route = "" /\ rt_data = None /\ rt_response = None

\* A JSON string of which only the whole is looked at (a layer name, a
\* property name); Text("") is the empty string.
Text(s) == [kind |-> "text", s |-> s]

\* bool(v) of a JSON scalar: None, "", 0 and False are false.
TruthyScalar(v) ==
    CASE v.kind = "NoneType" -> FALSE
      [] v.kind = "text" -> v.s # ""
      [] v.kind = "str" -> v.s # <<>>
      [] v.kind = "int" -> v.n # 0
      [] v.kind = "bool" -> v.val

\* The features of the documents the resolvers return: those of Earth
\* Engine's collections and those of the local files.
DocumentFeatures(doc) ==
    IF doc.src = "remote"
    THEN <<Feature(1, <<<<"COUNTY_NAM", String(<<" ", "A", "B">>)>>, <<"NAME", String(<<"b">>)>>>>),
           Feature(2, <<<<"COUNTY_NAM", Number(0)>>>>)>>
    ELSE <<Feature(1, <<<<"COUNTY_NAM", String(<<"b">>)>>>>),
           Feature(2, <<<<"COUNTY_NAM", String(<<" ", "A", "B">>)>>, <<"NAME", Number(0)>>>>)>>

\* What find_features is given when it is given gj.
GeojsonOf(gj) ==
    IF gj = None THEN None ELSE [kind |-> "dict", features |-> DocumentFeatures(gj)]

Response(status, body) == [kind |-> "response", status |-> status, body |-> body]

\* `force = request.args.get("refresh", "0") == "1"`, then the resolver.
get_counties(f) ==
    /\ rt_route = ""
    /\ rt_route' = "get_counties"
    /\ get_counties_geojson(1, f)
    /\ UNCHANGED <<rt_data, rt_response>>

get_constituencies(f) ==
    /\ rt_route = ""
    /\ rt_route' = "get_constituencies"
    /\ get_constituency_geojson(1, f)
    /\ UNCHANGED <<rt_data, rt_response>>

get_kenya_inset(f) ==
    /\ rt_route = ""
    /\ rt_route' = "get_kenya_inset"
    /\ get_kenya_inset_geojson(1, f)
    /\ UNCHANGED <<rt_data, rt_response>>

\* `if not gj: return ..., 503` / `return jsonify(gj)`
GetResponse(gj) ==
    IF ~Truthy(gj) THEN Response(503, None) ELSE Response(200, gj)

PostRoutes == {"properties", "download_feature"}

\* The layer names of a request body: none, "", the three known and another.
LayerNames == {None, Text(""), Text("counties"), Text("constituency"), Text("kenya"), Text("wards")}

\* id_prop: none, or a property name.
IdProps == {None, Text("COUNTY_NAM"), Text("NAME")}

\* id_val: none, a string, the number 0, a string no feature holds.
IdVals == {None, String(<<"a", "b", " ">>), Number(0), String(<<"z">>)}

Bodies == {[layer |-> l, id_prop |-> p, id_val |-> v] : l \in LayerNames, p \in IdProps, v \in IdVals}

\* `if not layer or not id_val`
Required(data) == TruthyScalar(data.layer) /\ TruthyScalar(data.id_val)

KnownLayers == {"counties", "constituency", "kenya"}

\* The if/elif chain over `layer`: the key of the resolver called.
LayerResolver(layer) ==
    CASE layer = "counties" -> "counties"
      [] layer = "constituency" -> "constituency"
      [] layer = "kenya" -> "kenya_inset"

\* /properties and /download_feature up to the resolver: 400 at once, or the
\* resolver of the layer, unforced.
PostRoute(route, data) ==
    /\ rt_route = ""
    /\ rt_route' = route
    /\ rt_data' = data
    /\ IF ~Required(data) \/ data.layer.s \notin KnownLayers
       THEN /\ rt_response' = Response(400, None)
            /\ UNCHANGED rvars
       ELSE /\ Resolve(1, LayerResolver(data.layer.s), FALSE)
            /\ UNCHANGED rt_response

properties(data) == PostRoute("properties", data)

download_feature(data) == PostRoute("download_feature", data)

\* `if id_prop: matches = find_features(gj, id_prop, id_val)`, then
\* `if not matches: matches = find_features(gj, "any", id_val)`.
RouteMatches(gj, data) ==
    LET named == IF TruthyScalar(data.id_prop)
                 THEN find_features(GeojsonOf(gj), data.id_prop.s, data.id_val)
                 ELSE <<>>
    IN  IF named = <<>> THEN find_features(GeojsonOf(gj), "any", data.id_val) ELSE named

\* After the matching: 404, or 200 with matches[0], which /download_feature
\* wraps in a FeatureCollection.
PostResponse(route, gj, data) ==
    LET matches == RouteMatches(gj, data)
    IN  IF matches = <<>> THEN Response(404, None)
        ELSE IF route = "properties"
             THEN Response(200, [properties |-> matches[1].properties, feature |-> matches[1]])
             ELSE Response(200, [type |-> "FeatureCollection", features |-> <<matches[1]>>])

\* The route goes on when its resolver has returned.
Respond ==
    /\ rt_route # ""
    /\ rt_response = None
    /\ pc[1] \in ReturnPcs
    /\ rt_response' = IF rt_route \in PostRoutes
                      THEN PostResponse(rt_route, result[1], rt_data)
                      ELSE GetResponse(result[1])
    /\ UNCHANGED <<rt_route, rt_data>>
    /\ UNCHANGED rvars

\* The entries when the request arrives: empty, or populated at time 0 by
\* requests served before.
RouteCaches ==
    {[k \in Layers |-> EmptyEntry],
     [k \in Layers |-> [ts |-> datetime(0), geojson |-> FC("remote", k, 0)]]}

----------------------------------------------------------------------------
(* The server. *)

\* The local files at start: all absent, or each layer's FeatureCollection;
\* uploads bring the rest.
InitFiles ==
    {[k \in Layers |-> Missing], [k \in Layers |-> JsonFile(FC("local", k, 1))]}

\* The server's variables after import.
ServerInit ==
    /\ now = 0
    /\ EE_INIT_OK \in BOOLEAN
    /\ cache = [k \in Layers |-> EmptyEntry]
    /\ files \in InitFiles
    /\ pc = [t \in Requests |-> "idle"]
    /\ key = [t \in Requests |-> "counties"]
    /\ forced = [t \in Requests |-> FALSE]
    /\ entry = [t \in Requests |-> None]
    /\ local = [t \in Requests |-> None]
    /\ result = [t \in Requests |-> None]
    /\ caught = [t \in Requests |-> ""]
    /\ fetches = [t \in Requests |-> 0]
    /\ reads = [t \in Requests |-> 0]

Init == ServerInit /\ IdleValid /\ IdleFind /\ IdleRoute

\* The server with no request made, while a pure function is exercised.
ServerAtRest == ServerInit /\ ~EE_INIT_OK /\ files = [k \in Layers |-> Missing]

Next ==
    \/ \E t \in Requests, f \in BOOLEAN : get_counties_geojson(t, f) /\ UNCHANGED <<cvars, fvars, tvars>>
    \/ \E t \in Requests, f \in BOOLEAN : get_constituency_geojson(t, f) /\ UNCHANGED <<cvars, fvars, tvars>>
    \/ \E t \in Requests, f \in BOOLEAN : get_kenya_inset_geojson(t, f) /\ UNCHANGED <<cvars, fvars, tvars>>
    \/ \E t \in Requests : HitReturn(t) /\ UNCHANGED <<cvars, fvars, tvars>>
    \/ \E t \in Requests : \E resp \in EEResponses(key[t], t) : RemoteFetch(t, resp) /\ UNCHANGED <<cvars, fvars, tvars>>
    \/ \E t \in Requests : LocalRead(t) /\ UNCHANGED <<cvars, fvars, tvars>>
    \/ \E t \in Requests : LocalReturn(t) /\ UNCHANGED <<cvars, fvars, tvars>>
    \/ \E k \in UploadLayers : \E data \in UploadContents(k) : upload_geojson(k, data) /\ UNCHANGED <<cvars, fvars, tvars>>
    \/ Tick /\ UNCHANGED <<cvars, fvars, tvars>>

Spec == Init /\ [][Next]_vars

\* cache_valid alone, over the entries and query times of its harness.
NextValid == CacheValidCall /\ UNCHANGED <<rvars, fvars, tvars>>

HarnessInitValid == ServerAtRest /\ InitValid /\ IdleFind /\ IdleRoute

SpecValid == HarnessInitValid /\ [][NextValid]_vars

\* find_features alone, over the collections, names and targets of its harness.
NextFind == FindFeaturesCall /\ UNCHANGED <<rvars, cvars, tvars>>

HarnessInitFind == ServerAtRest /\ IdleValid /\ InitFind /\ IdleRoute

SpecFind == HarnessInitFind /\ [][NextFind]_vars

\* One request through its route and resolver, among uploads and the clock.
HarnessInitRoute ==
    /\ now = 0
    /\ EE_INIT_OK \in BOOLEAN
    /\ cache \in RouteCaches
    /\ files \in InitFiles
    /\ pc = [t \in Requests |-> "idle"]
    /\ key = [t \in Requests |-> "counties"]
    /\ forced = [t \in Requests |-> FALSE]
    /\ entry = [t \in Requests |-> None]
    /\ local = [t \in Requests |-> None]
    /\ result = [t \in Requests |-> None]
    /\ caught = [t \in Requests |-> ""]
    /\ fetches = [t \in Requests |-> 0]
    /\ reads = [t \in Requests |-> 0]
    /\ IdleValid /\ IdleFind /\ IdleRoute

NextRoute ==
    \/ \E f \in BOOLEAN : get_counties(f) /\ UNCHANGED <<cvars, fvars>>
    \/ \E f \in BOOLEAN : get_constituencies(f) /\ UNCHANGED <<cvars, fvars>>
    \/ \E f \in BOOLEAN : get_kenya_inset(f) /\ UNCHANGED <<cvars, fvars>>
    \/ \E data \in Bodies : properties(data) /\ UNCHANGED <<cvars, fvars>>
    \/ \E data \in Bodies : download_feature(data) /\ UNCHANGED <<cvars, fvars>>
    \/ HitReturn(1) /\ UNCHANGED <<cvars, fvars, tvars>>
    \/ \E resp \in EEResponses(key[1], 1) : RemoteFetch(1, resp) /\ UNCHANGED <<cvars, fvars, tvars>>
    \/ LocalRead(1) /\ UNCHANGED <<cvars, fvars, tvars>>
    \/ LocalReturn(1) /\ UNCHANGED <<cvars, fvars, tvars>>
    \/ Respond /\ UNCHANGED <<cvars, fvars>>
    \/ \E k \in UploadLayers : \E data \in UploadContents(k) : upload_geojson(k, data) /\ UNCHANGED <<cvars, fvars, tvars>>
    \/ Tick /\ UNCHANGED <<cvars, fvars, tvars>>

SpecRoute == HarnessInitRoute /\ [][NextRoute]_vars

----------------------------------------------------------------------------
(* What the claims speak of. *)

\* The age of entry e at time n.
Age(e, n) == n - e.ts.sec

\* How often feature number i is in a list of features.
Count(items, i) == Cardinality({j \in 1..Len(items) : items[j].id = i})

\* The string form of v, trimmed and lower-cased.
Canonical(v) == lower(strip(str(v)))

----------------------------------------------------------------------------
\* C1: cache_valid is true exactly when the entry has a timestamp and a
\* non-empty collection and less than CACHE_TTL seconds have passed since the
\* timestamp: true at CACHE_TTL - 1 seconds, false at CACHE_TTL and beyond.
C1_CacheValid ==
    cv_out # None =>
        /\ cv_out.val = TRUE
              <=> /\ cv_entry # None
                  /\ cv_entry.ts # None
                  /\ cv_entry.geojson # None /\ cv_entry.geojson.len > 0
                  /\ Age(cv_entry, cv_now) < CACHE_TTL
        /\ (cv_entry # None /\ cv_entry.ts # None /\ Truthy(cv_entry.geojson))
              => /\ Age(cv_entry, cv_now) = CACHE_TTL - 1 => cv_out.val = TRUE
                 /\ Age(cv_entry, cv_now) >= CACHE_TTL => cv_out.val = FALSE

C1_Witness ==
    /\ cv_out # None /\ cv_out.val = TRUE
    /\ Truthy(cv_entry.geojson)
    /\ Age(cv_entry, cv_now) = CACHE_TTL - 1

Returned(t) == pc[t] \in ReturnPcs

\* Request t takes the step. A step no request takes and in which no time
\* passes is an upload.
Moves(t) == pc'[t] # pc[t]

\* An entry with a timestamp and a non-empty collection, younger than the
\* cache lifetime at time n.
Fresh(e, n) == e.ts # None /\ Truthy(e.geojson) /\ n - e.ts.sec < CACHE_TTL

\* The entry a resolver leaves when it stores v at time n.
Stored(v, n) == [ts |-> datetime(n), geojson |-> v]

WellTyped(v) == v.kind = "dict" /\ v.type = "FeatureCollection"

FromRemote(v) == v # None /\ v.src = "remote"

----------------------------------------------------------------------------
\* C2, as stated: when Earth Engine is initialized and its fetch failed, and
\* the layer's local file exists and holds JSON, whatever JSON it holds, the
\* resolver returns what it read and leaves it in the layer's cache entry
\* under the current time.
C2_AnyJsonIsServed ==
    [][\A t \in Requests :
          (pc[t] = "fallback" /\ Moves(t) /\ fetches[t] = 1 /\ local[t] # None)
             => /\ result'[t] = local[t]
                /\ cache'[key[t]] = Stored(local[t], now)]_vars

\* C2, amended: the same for a local file whose JSON is a non-empty value;
\* what the resolver reads is what the file holds.
C2_LocalFallback ==
    [][\A t \in Requests :
          /\ (pc[t] = "local" /\ Moves(t) /\ files[key[t]].kind = "json")
                => local'[t] = files[key[t]].value
          /\ (pc[t] = "fallback" /\ Moves(t) /\ fetches[t] = 1 /\ Truthy(local[t]))
                => /\ pc'[t] = "ret_local"
                   /\ result'[t] = local[t]
                   /\ cache'[key[t]] = Stored(local[t], now)]_vars

C2_Witness ==
    \E t \in Requests :
        /\ EE_INIT_OK /\ fetches[t] = 1 /\ pc[t] = "ret_local"
        /\ result[t] = files[key[t]].value
        /\ cache[key[t]] = Stored(result[t], now)

\* C3: a resolver whose fetch was not made or failed and whose local file is
\* missing or not JSON returns None, and none of its steps writes the cache:
\* an entry that was empty is still empty.
C3_NotAvailable ==
    [][\A t \in Requests :
          /\ (pc[t] = "local" /\ Moves(t) /\ files[key[t]].kind \in {"missing", "malformed"})
                => local'[t] = None
          /\ (pc[t] = "fallback" /\ Moves(t) /\ local[t] = None)
                => pc'[t] = "ret_none" /\ result'[t] = None
          /\ (Moves(t) /\ pc'[t] \notin {"ret_remote", "ret_local"})
                => cache' = cache]_vars

C3_Witness ==
    \E t \in Requests :
        /\ pc[t] = "ret_none" /\ result[t] = None
        /\ files[key[t]].kind \in {"missing", "malformed"}
        /\ cache[key[t]] = EmptyEntry

\* C4: an unforced resolver entered while the layer's entry is fresh takes
\* the cache path; on it, it makes no fetch and no file read, writes nothing,
\* and, the entry not having been replaced meanwhile, returns that entry's
\* collection.
C4_CacheHit ==
    [][\A t \in Requests :
          /\ (pc[t] = "idle" /\ Moves(t) /\ ~forced'[t] /\ Fresh(cache[key'[t]], now))
                => pc'[t] = "hit" /\ entry'[t] = cache[key'[t]] /\ cache' = cache
          /\ (pc[t] = "hit" /\ Moves(t))
                => /\ pc'[t] = "ret_hit"
                   /\ fetches'[t] = 0 /\ reads'[t] = 0
                   /\ cache' = cache /\ files' = files
                   /\ cache[key[t]] = entry[t]
                         => result'[t] = entry[t].geojson /\ Truthy(result'[t])]_vars

C4_Witness ==
    \E t \in Requests :
        /\ pc[t] = "ret_hit" /\ fetches[t] = 0 /\ reads[t] = 0
        /\ Fresh(cache[key[t]], now)
        /\ result[t] = cache[key[t]].geojson

\* C5: a forced resolver never takes the cache path, although the entry is
\* fresh: it goes to the fetch when Earth Engine is initialized, else to the
\* local file; when it obtains a collection it overwrites the entry, so that
\* an unforced resolver entered next finds the entry fresh and is given the
\* collection just stored.
C5_ForceRefresh ==
    [][\A t \in Requests :
          /\ (pc[t] = "idle" /\ forced'[t])
                => pc'[t] = (IF EE_INIT_OK THEN "remote" ELSE "local")
          /\ (forced'[t] /\ pc'[t] \in ReturnPcs)
                => /\ pc'[t] # "ret_hit"
                   /\ fetches'[t] = (IF EE_INIT_OK THEN 1 ELSE 0)
                   /\ fetches'[t] + reads'[t] >= 1
          /\ (forced[t] /\ Moves(t) /\ pc'[t] \in {"ret_remote", "ret_local"})
                => /\ cache'[key[t]] = Stored(result'[t], now)
                   /\ Fresh(cache'[key[t]], now')
                   /\ CacheHit(FALSE, cache'[key[t]], now')
                   /\ CachedGeojson(cache', key[t], cache'[key[t]]) = result'[t]]_vars

C5_Witness ==
    \E t \in Requests :
        /\ forced[t] /\ pc[t] = "ret_remote"
        /\ \E u \in Requests : Returned(u) /\ u # t /\ key[u] = key[t] /\ result[u] # result[t]
        /\ cache[key[t]] = Stored(result[t], now)

\* C6: no failure of Earth Engine leaves a resolver: a failed fetch is caught
\* and the resolver goes on to the local file, as it does without a fetch
\* when Earth Engine is not initialized, and it returns a collection or None.
C6_RemoteFailureAbsorbed ==
    \A t \in Requests :
        /\ pc[t] \in {"idle", "hit", "remote", "local", "fallback"} \cup ReturnPcs
        /\ caught[t] # "" => pc[t] = "local"
        /\ ~EE_INIT_OK => fetches[t] = 0 /\ pc[t] \notin {"remote", "ret_remote"}
        /\ (fetches[t] = 1 /\ pc[t] # "ret_remote")
              => pc[t] \in {"local", "fallback", "ret_local", "ret_none"}
        /\ pc[t] \in {"fallback", "ret_local", "ret_none"} => reads[t] = 1
        /\ pc[t] = "ret_none" => result[t] = None
        /\ pc[t] \in {"ret_remote", "ret_local"} => Truthy(result[t])
        /\ Returned(t) => result[t] = None \/ result[t].kind = "dict"

C6_Witness ==
    \E t \in Requests :
        /\ EE_INIT_OK /\ fetches[t] = 1 /\ reads[t] = 1
        /\ pc[t] \in {"ret_local", "ret_none"}

\* C7: nothing Earth Engine returned without the type tag "FeatureCollection"
\* is in a cache entry or is returned; the resolver that got it is at the
\* local file, having stored and returned nothing.
C7_MistypedResponseDiscarded ==
    /\ \A k \in Layers :
          FromRemote(cache[k].geojson) => WellTyped(cache[k].geojson)
    /\ \A t \in Requests :
          /\ FromRemote(result[t]) => WellTyped(result[t])
          /\ caught[t] = "RuntimeError"
                => pc[t] = "local" /\ result[t] = None /\ reads[t] = 0

C7_Witness ==
    \E t \in Requests : caught[t] = "RuntimeError" /\ pc[t] = "local"

\* C8, as stated: an unforced resolver that found the entry fresh returns the
\* non-empty collection of the entry it tested, whatever other requests and
\* uploads do meanwhile.
C8_TestedEntryReturned ==
    [][\A t \in Requests :
          (pc[t] = "hit" /\ Moves(t))
             => result'[t] = entry[t].geojson /\ Truthy(result'[t])]_vars

\* C9: every entry is empty at start; an entry becomes populated only by the
\* step of a resolver of that layer that returns the collection stored; an
\* upload leaves all three entries empty, and an unforced resolver entered
\* on an empty entry takes the miss path.
C9_Lifecycle ==
    /\ \A k \in Layers : cache[k] = EmptyEntry
    /\ [][/\ \A k \in Layers :
                (cache'[k] # cache[k] /\ cache'[k] # EmptyEntry)
                   => \E t \in Requests :
                         /\ Moves(t) /\ key[t] = k
                         /\ pc'[t] \in {"ret_remote", "ret_local"}
                         /\ Truthy(result'[t])
                         /\ cache'[k] = Stored(result'[t], now)
          /\ ((\A t \in Requests : ~Moves(t)) /\ now' = now)
                => \A k \in Layers :
                      /\ cache'[k] = EmptyEntry
                      /\ \A n \in Times : ~CacheHit(FALSE, cache'[k], n)
          /\ \A t \in Requests :
                (pc[t] = "idle" /\ Moves(t) /\ cache[key'[t]] = EmptyEntry)
                   => pc'[t] \in {"remote", "local"}]_vars

C9_Witness ==
    /\ \A k \in Layers : cache[k] = EmptyEntry
    /\ files \notin InitFiles
    /\ \E t, u \in Requests :
          /\ key[t] # key[u]
          /\ pc[t] \in {"ret_remote", "ret_local"}
          /\ pc[u] \in {"ret_remote", "ret_local"}

\* C10: find_features, called with a property name, includes exactly once
\* every feature whose property of that name is present and not null and has
\* the same trimmed, lower-cased string form as the target.
C10_ExactMatch ==
    (ff_out # None /\ ff_geojson # None /\ "features" \in DOMAIN ff_geojson) =>
        \A i \in 1..Len(ff_geojson.features) :
            LET props == ff_geojson.features[i].properties
            IN  (\E j \in 1..Len(props) :
                    /\ props[j][1] = ff_prop
                    /\ props[j][2] # None
                    /\ Canonical(props[j][2]) = Canonical(ff_value))
                   => Count(ff_out.items, i) = 1

C10_Witness ==
    /\ ff_out # None /\ ff_geojson # None /\ "features" \in DOMAIN ff_geojson
    /\ \E i \in 1..Len(ff_geojson.features) :
          LET props == ff_geojson.features[i].properties
          IN  /\ \E j \in 1..Len(props) :
                    /\ props[j][1] = ff_prop
                    /\ props[j][2] # None
                    /\ str(props[j][2]) # str(ff_value)
                    /\ Canonical(props[j][2]) = Canonical(ff_value)
              /\ Count(ff_out.items, i) = 1
              /\ Len(ff_out.items) < Len(ff_geojson.features)

----------------------------------------------------------------------------
(* find_features, the scan of all properties. *)

\* The call has returned the features of a collection.
Found == ff_out # None /\ ff_geojson # None /\ "features" \in DOMAIN ff_geojson

\* The properties of feature i hold the named key with a value that is not null.
NamedValuePresent(i) ==
    \E j \in 1..Len(ff_geojson.features[i].properties) :
        /\ ff_geojson.features[i].properties[j][1] = ff_prop
        /\ ff_geojson.features[i].properties[j][2] # None

\* The named value of feature i is not null and has the target's canonical form.
NamedValueEqual(i) ==
    \E j \in 1..Len(ff_geojson.features[i].properties) :
        /\ ff_geojson.features[i].properties[j][1] = ff_prop
        /\ ff_geojson.features[i].properties[j][2] # None
        /\ Canonical(ff_geojson.features[i].properties[j][2]) = Canonical(ff_value)

\* Some string-typed value of feature i has the target's canonical form.
StringValueEqual(i) ==
    \E j \in 1..Len(ff_geojson.features[i].properties) :
        /\ ff_geojson.features[i].properties[j][2].kind = "str"
        /\ Canonical(ff_geojson.features[i].properties[j][2]) = Canonical(ff_value)

\* C11: a feature without the named key, or with null under it (as every
\* feature is when no property name is given), is in the result if and only
\* if one of its string-typed values has the target's trimmed, lower-cased
\* form; values that are not strings do not count, and when no feature of the
\* collection qualifies on either path the result is empty.
C11_FuzzyMatch ==
    Found =>
        /\ \A i \in 1..Len(ff_geojson.features) :
              ~NamedValuePresent(i)
                 => (Count(ff_out.items, i) >= 1 <=> StringValueEqual(i))
        /\ (\A i \in 1..Len(ff_geojson.features) :
                ~NamedValueEqual(i) /\ ~StringValueEqual(i))
              => ff_out.items = <<>>

C11_Witness ==
    /\ Found
    /\ \E i, k \in 1..Len(ff_geojson.features) :
          /\ ~NamedValuePresent(i) /\ StringValueEqual(i) /\ Count(ff_out.items, i) = 1
          /\ ~NamedValuePresent(k) /\ ~StringValueEqual(k) /\ Count(ff_out.items, k) = 0
          /\ \E j \in 1..Len(ff_geojson.features[k].properties) :
                ff_geojson.features[k].properties[j][2].kind = "int"

\* C12, as stated: a feature whose named property is present, not null and
\* different from the target is not in the result, whatever its other
\* properties hold.
C12_NoScanAfterMismatch ==
    Found =>
        \A i \in 1..Len(ff_geojson.features) :
            (NamedValuePresent(i) /\ ~NamedValueEqual(i))
               => Count(ff_out.items, i) = 0

\* C13: the result is a subsequence of the collection's features: its
\* members are features of the collection, in document order, none twice,
\* and every feature that matches by its named value or by a string value
\* is a member.
C13_Subsequence ==
    Found =>
        /\ \A j \in 1..Len(ff_out.items) :
              /\ ff_out.items[j].id \in 1..Len(ff_geojson.features)
              /\ ff_out.items[j] = ff_geojson.features[ff_out.items[j].id]
        /\ \A j, k \in 1..Len(ff_out.items) :
              j < k => ff_out.items[j].id < ff_out.items[k].id
        /\ \A i \in 1..Len(ff_geojson.features) :
              /\ Count(ff_out.items, i) <= 1
              /\ (NamedValueEqual(i) \/ StringValueEqual(i)) => Count(ff_out.items, i) = 1

C13_Witness ==
    /\ Found
    /\ Len(ff_out.items) = 2
    /\ Len(ff_geojson.features) > 1
    /\ ff_out.items[1].properties = ff_out.items[2].properties
    /\ ff_out.items[1].id < ff_out.items[2].id
    /\ ~NamedValuePresent(ff_out.items[1].id)
    /\ Cardinality({j \in 1..Len(ff_out.items[1].properties) :
                       FuzzyEqual(ff_out.items[1].properties[j][2], ff_value)}) = 2

----------------------------------------------------------------------------
(* The routes. *)

\* The route has answered.
Answered == rt_response # None

\* The layer a request names: that of its route, or that of its body.
RequestedLayer ==
    CASE rt_route = "get_counties" -> "counties"
      [] rt_route = "get_constituencies" -> "constituency"
      [] rt_route = "get_kenya_inset" -> "kenya"
      [] OTHER -> rt_data.layer.s

\* C14, as stated: a route whose resolver returned None answers 503, the
\* three GET routes and the two POST routes alike.
C14_NotAvailableIs503 ==
    (Answered /\ pc[1] \in ReturnPcs /\ result[1] = None)
        => rt_response.status = 503

\* C15, as stated: /properties and /download_feature answer 400 when layer
\* or id_val is missing or the layer is not known, 404 when the matcher
\* finds no feature for id_prop and id_val, and otherwise 200 with the first
\* feature of the matcher's result, which /download_feature gives as a
\* FeatureCollection of that one feature.
C15_PostAnswers ==
    (Answered /\ rt_route \in PostRoutes) =>
        IF \/ rt_data.layer = None
           \/ rt_data.id_val = None
           \/ rt_data.layer.s \notin KnownLayers
        THEN rt_response.status = 400
        ELSE IF RouteMatches(result[1], rt_data) = <<>>
        THEN rt_response.status = 404
        ELSE /\ rt_response.status = 200
             /\ rt_route = "properties"
                   => rt_response.body.feature = RouteMatches(result[1], rt_data)[1]
             /\ rt_route = "download_feature"
                   => /\ rt_response.body.type = "FeatureCollection"
                      /\ rt_response.body.features = <<RouteMatches(result[1], rt_data)[1]>>

\* C18: the resolver a request reaches is that of the layer it names,
\* "kenya" being kenya_inset; it takes the cache path according to that
\* layer's entry alone, returns on it what that entry holds, stores what it
\* obtained in that entry, and in no step changes another layer's entry.
C18_LayerFrame ==
    [][/\ (pc[1] = "idle" /\ Moves(1))
             => /\ key'[1] = (CASE RequestedLayer' = "counties" -> "counties"
                                [] RequestedLayer' = "constituency" -> "constituency"
                                [] RequestedLayer' = "kenya" -> "kenya_inset")
                /\ pc'[1] = "hit" <=> (~forced'[1] /\ Fresh(cache[key'[1]], now))
                /\ cache' = cache
       /\ (pc[1] = "hit" /\ Moves(1)) => result'[1] = cache[key[1]].geojson
       /\ (Moves(1) /\ pc'[1] \in {"ret_remote", "ret_local"})
             => cache'[key[1]] = Stored(result'[1], now)
       /\ Moves(1)
             => \A k \in Layers \ {key'[1]} : cache'[k] = cache[k]]_vars

C18_Witness ==
    /\ rt_route \in PostRoutes /\ rt_data.layer = Text("kenya")
    /\ pc[1] \in {"ret_remote", "ret_local"}
    /\ cache["kenya_inset"] = Stored(result[1], now)
    /\ \A k \in {"counties", "constituency"} :
          cache[k] = Stored(FC("remote", k, 0), 0)

----------------------------------------------------------------------------
(* Concurrent requests and uploads. *)

FromLocal(v) == v # None /\ v.src = "local"

\* C16, as stated: a request that arrives, all uploads so far being complete,
\* and takes the cache path is not given a collection read from the layer's
\* local file unless the file still holds it.
C16_NoStaleFileAfterUpload ==
    [][\A t \in Requests :
          (pc[t] = "idle" /\ pc'[t] = "hit"
             /\ FromLocal(CachedGeojson(cache', key'[t], entry'[t])))
             => files'[key'[t]] = JsonFile(CachedGeojson(cache', key'[t], entry'[t]))]_vars

\* C17: a request that misses goes to its own fetch (or file read) whatever
\* the other requests are doing; every request that reached the fetch made
\* exactly one; each returns the collection its own fetch or read gave it and
\* stores it, so that the entry holds what the last writer obtained.
C17_NoSingleFlight ==
    [][\A t \in Requests :
          /\ (pc[t] = "idle" /\ Moves(t) /\ pc'[t] # "hit")
                => pc'[t] = (IF EE_INIT_OK THEN "remote" ELSE "local")
          /\ (pc[t] = "remote" /\ Moves(t))
                => fetches[t] = 0 /\ fetches'[t] = 1
          /\ fetches'[t] = (IF EE_INIT_OK /\ pc'[t] \notin {"idle", "hit", "ret_hit", "remote"}
                            THEN 1 ELSE 0)
          /\ (Moves(t) /\ pc'[t] = "ret_remote")
                => /\ result'[t] = FC("remote", key[t], t)
                   /\ cache'[key[t]] = Stored(result'[t], now)
          /\ (Moves(t) /\ pc'[t] = "ret_local")
                => /\ result'[t] = local[t]
                   /\ cache'[key[t]] = Stored(result'[t], now)]_vars

C17_Witness ==
    \E t, u \in Requests :
        /\ t < u /\ key[t] = key[u]
        /\ ~forced[t] /\ ~forced[u]
        /\ pc[t] = "ret_remote" /\ pc[u] = "ret_remote"
        /\ fetches[t] = 1 /\ fetches[u] = 1
        /\ result[t] # result[u]
        /\ cache[key[t]].geojson = result[t]

\* C19: every entry has a timestamp if and only if it has a collection that
\* is not empty.
C19_EntryWhole ==
    \A k \in Layers :
        cache[k].ts # None <=> (cache[k].geojson # None /\ cache[k].geojson.len > 0)

C19_Witness ==
    /\ files \notin InitFiles
    /\ \E k \in Layers : cache[k].ts # None /\ FromLocal(cache[k].geojson)
    /\ \E k \in Layers : cache[k] = EmptyEntry
    /\ \E t \in Requests : pc[t] = "ret_none"

\* C20: a resolver that ends with None wrote nothing on its way: the entry
\* of its layer is what it was, and when that entry is still fresh an
\* unforced resolver entered next takes the cache path and is given the old
\* collection.
C20_FailedRefreshKeepsEntry ==
    [][\A t \in Requests :
          /\ (Moves(t) /\ pc[t] \in {"remote", "local"}) => pc'[t] = "ret_remote" \/ cache' = cache
          /\ (pc[t] = "fallback" /\ Moves(t) /\ ~Truthy(local[t]))
                => /\ pc'[t] = "ret_none" /\ result'[t] = None
                   /\ cache' = cache
                   /\ Fresh(cache[key[t]], now)
                         => /\ CacheHit(FALSE, cache'[key[t]], now')
                            /\ CachedGeojson(cache', key[t], cache'[key[t]]) = cache[key[t]].geojson]_vars

C20_Witness ==
    \E t, u \in Requests :
        /\ u # t /\ key[u] = key[t]
        /\ forced[t] /\ pc[t] = "ret_none" /\ fetches[t] = 1 /\ reads[t] = 1
        /\ pc[u] \in {"ret_remote", "ret_local"}
        /\ cache[key[t]].geojson = result[u]
        /\ Fresh(cache[key[t]], now)

=============================================================================
